---- MODULE Spec2Model ----
(***************************************************************************)
(* A model of the BPE tokenizer of src/bpe/bpe.py.                         *)
(*                                                                         *)
(* A Python str is a sequence of one-character strings, so that split,     *)
(* join and replace work on text as the interpreter does.  A Python dict   *)
(* is a sequence of records [k, v] with unique keys, in insertion order,   *)
(* which is the order dict iteration and max() observe.                    *)
(***************************************************************************)
EXTENDS Integers, Sequences, FiniteSets, TLC

VARIABLES vocab, bpe_codes, corpus, vocab_size, max_merges, pc, iter, merges, stop, input, ret

vars == <<vocab, bpe_codes, corpus, vocab_size, max_merges, pc, iter, merges, stop, input, ret>>

(***************************************************************************)
(* Bounds of the model.                                                    *)
(***************************************************************************)
MaxWordLen == 2
MaxSentences == 2
MaxVocabSize == 4
MaxMerges == 2
MaxTextLen == 4
MaxTokens == 2
MaxTokenLen == 2

Alphabet == {"a", "b"}
SP == " "

(***************************************************************************)
(* Python str operations.                                                  *)
(***************************************************************************)
RECURSIVE SplitFrom(_, _, _)
SplitFrom(s, i, cur) ==
    IF i > Len(s)
    THEN IF cur = <<>> THEN <<>> ELSE <<cur>>
    ELSE IF s[i] = SP
         THEN IF cur = <<>>
              THEN SplitFrom(s, i + 1, <<>>)
              ELSE <<cur>> \o SplitFrom(s, i + 1, <<>>)
         ELSE SplitFrom(s, i + 1, Append(cur, s[i]))

\* str.split(): the maximal runs of non-whitespace characters, in order
Split(s) == SplitFrom(s, 1, <<>>)

RECURSIVE Join(_, _)
\* sep.join(xs) for a list xs of strings
Join(sep, xs) ==
    IF xs = <<>> THEN <<>>
    ELSE IF Len(xs) = 1 THEN xs[1]
    ELSE xs[1] \o sep \o Join(sep, Tail(xs))

\* iterating a str yields its characters as one-character strings
Chars(s) == [i \in 1..Len(s) |-> <<s[i]>>]

StartsWith(s, old) ==
    /\ Len(old) <= Len(s)
    /\ SubSeq(s, 1, Len(old)) = old

RECURSIVE Replace(_, _, _)
\* str.replace(old, new) for non-empty old: leftmost non-overlapping matches
Replace(s, old, new) ==
    IF Len(s) < Len(old) THEN s
    ELSE IF StartsWith(s, old)
         THEN new \o Replace(SubSeq(s, Len(old) + 1, Len(s)), old, new)
         ELSE <<s[1]>> \o Replace(Tail(s), old, new)

RECURSIVE Concat(_)
\* the concatenation of a list of strings
Concat(xs) == IF xs = <<>> THEN <<>> ELSE xs[1] \o Concat(Tail(xs))

(***************************************************************************)
(* Python dict operations.                                                 *)
(***************************************************************************)
Keys(d) == {d[i].k : i \in 1..Len(d)}
Values(d) == {d[i].v : i \in 1..Len(d)}
Has(d, key) == key \in Keys(d)
Get(d, key) == d[CHOOSE i \in 1..Len(d) : d[i].k = key].v

Store(d, key, val) ==
    IF Has(d, key)
    THEN [i \in 1..Len(d) |-> IF d[i].k = key THEN [k |-> key, v |-> val] ELSE d[i]]
    ELSE Append(d, [k |-> key, v |-> val])

\* d[key] = val: an existing key keeps its position, a new key is appended
\* (the dict and the key are evaluated once, then stored into)
DictSet(d, key, val) ==
    CHOOSE r \in {Store(x, y, val) : x \in {d}, y \in {key}} : TRUE

\* if key not in d: d[key] = 0
\* d[key] += n
Increment(d, key, n) ==
    CHOOSE r \in {Store(x, y, (IF Has(x, y) THEN Get(x, y) ELSE 0) + n) : x \in {d}, y \in {key}} : TRUE

RECURSIVE SumValues(_)
SumValues(d) == IF d = <<>> THEN 0 ELSE d[1].v + SumValues(Tail(d))

(***************************************************************************)
(* BPE.train, lines 22-33: building and splitting the vocabulary.          *)
(***************************************************************************)
RECURSIVE CountWords(_, _)
\* lines 23-26 for the words ws of one sentence
CountWords(d, ws) ==
    IF ws = <<>> THEN d
    ELSE CountWords(Increment(d, ws[1], 1), Tail(ws))

RECURSIVE BuildVocabulary(_, _)
\* lines 22-26
BuildVocabulary(d, sentences) ==
    IF sentences = <<>> THEN d
    ELSE BuildVocabulary(CountWords(d, Split(sentences[1])), Tail(sentences))

RECURSIVE SplitVocabulary(_, _)
\* lines 29-32
SplitVocabulary(new_vocab, d) ==
    IF d = <<>> THEN new_vocab
    ELSE SplitVocabulary(DictSet(new_vocab, Join(<<SP>>, Chars(d[1].k)), d[1].v), Tail(d))

(***************************************************************************)
(* BPE.get_pairs.                                                          *)
(***************************************************************************)
RECURSIVE PairsOfWord(_, _, _, _)
\* lines 58-62 for one entry
PairsOfWord(pairs, symbols, freq, i) ==
    IF i > Len(symbols) - 1 THEN pairs
    ELSE PairsOfWord(Increment(pairs, <<symbols[i], symbols[i + 1]>>, freq),
                     symbols, freq, i + 1)

RECURSIVE PairsFrom(_, _)
PairsFrom(pairs, d) ==
    IF d = <<>> THEN pairs
    ELSE PairsFrom(PairsOfWord(pairs, Split(d[1].k), d[1].v, 1), Tail(d))

get_pairs(v) == PairsFrom(<<>>, v)

\* variant: the first key of minimal value
best_pair_min(pairs) ==
    pairs[CHOOSE i \in 1..Len(pairs) :
             /\ \A j \in 1..Len(pairs) : pairs[j].v >= pairs[i].v
             /\ \A j \in 1..(i - 1) : pairs[j].v > pairs[i].v].k

\* line 43, max(pairs, key=pairs.get): the first key, in iteration order, of
\* maximal value
best_pair(pairs) ==
    pairs[CHOOSE i \in 1..Len(pairs) :
             /\ \A j \in 1..Len(pairs) : pairs[j].v <= pairs[i].v
             /\ \A j \in 1..(i - 1) : pairs[j].v < pairs[i].v].k

(***************************************************************************)
(* BPE.update_vocab and BPE.merge_tokens.                                  *)
(***************************************************************************)
RECURSIVE UpdateFrom(_, _, _, _, _)
UpdateFrom(updated_vocab, d, token1, token2, new_token) ==
    IF d = <<>> THEN updated_vocab
    ELSE UpdateFrom(DictSet(updated_vocab,
                            Replace(d[1].k, token1 \o <<SP>> \o token2, new_token),
                            d[1].v),
                    Tail(d), token1, token2, new_token)

RECURSIVE UpdateChangedFrom(_, _, _, _, _)
UpdateChangedFrom(updated_vocab, d, token1, token2, new_token) ==
    IF d = <<>> THEN updated_vocab
    ELSE LET updated_word == Replace(d[1].k, token1 \o <<SP>> \o token2, new_token)
         IN  UpdateChangedFrom(IF updated_word = d[1].k THEN updated_vocab
                               ELSE DictSet(updated_vocab, updated_word, d[1].v),
                               Tail(d), token1, token2, new_token)

\* variant: only the entries the replacement changes are kept
update_vocab_changed_only(v, token1, token2, new_token) ==
    UpdateChangedFrom(<<>>, v, token1, token2, new_token)

\* variant: the pair is replaced by token1 alone
update_vocab_lossy(v, token1, token2, new_token) ==
    UpdateFrom(<<>>, v, token1, token2, token1)

\* lines 92-96
update_vocab(v, token1, token2, new_token) ==
    UpdateFrom(<<>>, v, token1, token2, new_token)

\* variant: the key is token1 alone
merge_key_first_token(token1, token2) == token1

\* line 77: the key of the Merge Table entry
merge_key(token1, token2) == token1 \o <<SP>> \o token2

\* line 77
merge_codes(codes, token1, token2) ==
    DictSet(codes, merge_key(token1, token2), token1 \o token2)

(***************************************************************************)
(* BPE.encode_word and BPE.encode.                                         *)
(***************************************************************************)
RECURSIVE FirstMatchUp(_, _, _, _)
FirstMatchUp(codes, word, c, j) ==
    IF j > Len(word) THEN 0
    ELSE IF SubSeq(word, c, j) \in Values(codes) THEN j
    ELSE FirstMatchUp(codes, word, c, j + 1)

RECURSIVE FirstMatchDown(_, _, _, _)
\* lines 134-140: the candidates word[c..j] for j from the end of the word
\* down to c; the end of the first one that is a Merge Table value, else 0
FirstMatchDown(codes, word, c, j) ==
    IF j < c THEN 0
    ELSE IF SubSeq(word, c, j) \in Values(codes) THEN j
    ELSE FirstMatchDown(codes, word, c, j - 1)

\* variant: the candidates are tried from the shortest
find_subword_shortest(codes, word, c) == FirstMatchUp(codes, word, c, c)

\* lines 132-140 at cursor c (1-based)
find_subword(codes, word, c) == FirstMatchDown(codes, word, c, Len(word))

RECURSIVE EncodeFrom(_, _, _)
\* lines 131-143
EncodeFrom(codes, word, c) ==
    IF c > Len(word) THEN <<>>
    ELSE LET j == find_subword(codes, word, c)
         IN  IF j # 0
             THEN <<SubSeq(word, c, j)>> \o EncodeFrom(codes, word, j + 1)
             ELSE <<<<word[c]>>>> \o EncodeFrom(codes, word, c + 1)

\* lines 125-144
encode_word(codes, word) ==
    IF word \in Values(codes) THEN <<word>> ELSE EncodeFrom(codes, word, 1)

RECURSIVE EncodeWords(_, _)
\* lines 110-112
EncodeWords(codes, words) ==
    IF words = <<>> THEN <<>>
    ELSE encode_word(codes, words[1]) \o EncodeWords(codes, Tail(words))

\* lines 108-113
encode(codes, sentence) == EncodeWords(codes, Split(sentence))

(***************************************************************************)
(* BPE.decode.                                                             *)
(***************************************************************************)
RECURSIVE AbsorbAny(_, _, _, _)
AbsorbAny(codes, enc, token, j) ==
    IF j <= Len(enc) /\ enc[j] \notin Values(codes)
    THEN AbsorbAny(codes, enc, token \o enc[j], j + 1)
    ELSE <<token, j>>

RECURSIVE Absorb(_, _, _, _)
\* lines 163-166: the fragment and the index after the last absorbed token
Absorb(codes, enc, token, j) ==
    IF j <= Len(enc) /\ enc[j] \in Values(codes)
    THEN Absorb(codes, enc, token \o enc[j], j + 1)
    ELSE <<token, j>>

\* variant: the tokens that are not Merge Table values are absorbed
absorb_raw(codes, enc, i) == AbsorbAny(codes, enc, enc[i], i + 1)

\* lines 163-166 for the fragment that starts at token i
absorb(codes, enc, i) == Absorb(codes, enc, enc[i], i + 1)

RECURSIVE DecodeFrom(_, _, _)
\* lines 158-169: the list decoded_sentence
DecodeFrom(codes, enc, i) ==
    IF i > Len(enc) THEN <<>>
    ELSE IF enc[i] \in Values(codes)
         THEN <<enc[i]>> \o DecodeFrom(codes, enc, i + 1)
         ELSE LET r == absorb(codes, enc, i)
              IN  <<r[1]>> \o DecodeFrom(codes, enc, r[2])

\* lines 156-170
decode(codes, enc) == Join(<<SP>>, DecodeFrom(codes, enc, 1))

(***************************************************************************)
(* BPE.get_stats.                                                          *)
(***************************************************************************)
RECURSIVE SumLen(_)
SumLen(d) == IF d = <<>> THEN 0 ELSE Len(d[1].v) + SumLen(Tail(d))

\* lines 229-240; the average is the fraction <<sum, n>>, and the division
\* by num_merges_performed = 0 raises ZeroDivisionError
get_stats(v, codes) ==
    IF Len(codes) = 0
    THEN [op |-> "get_stats", arg |-> <<>>, out |-> <<>>, raised |-> "ZeroDivisionError"]
    ELSE [op |-> "get_stats", arg |-> <<>>,
          out |-> <<Len(v), Len(codes), SumLen(codes), Len(codes)>>,
          raised |-> "none"]

(***************************************************************************)
(* Inputs.                                                                 *)
(***************************************************************************)
Words == UNION {[1..n -> Alphabet] : n \in 1..MaxWordLen}

\* the corpus of the scenario of the specification: ["aa aa bb"]
ScenarioCorpus == << <<"a", "a", " ", "a", "a", " ", "b", "b">> >>

\* ["ab ab aaa aab"]: (a, b) is merged first, then (a, a) next to symbol "ab"
PartialMatchCorpus ==
    << <<"a", "b", " ", "a", "b", " ", "a", "a", "a", " ", "a", "a", "b">> >>

\* ["aaa aaa"]: the Merge Table values "aa" and "aaa"
NestedCorpus == << <<"a", "a", "a", " ", "a", "a", "a">> >>

\* [" a  a ", ""]: leading, repeated and trailing whitespace, an empty line
RaggedCorpus == << <<" ", "a", " ", " ", "a", " ">>, <<>> >>

\* ["aab aab ab"]: the pairs (a, a) of frequency 2 and (a, b) of frequency 3
SkewedCorpus == << <<"a", "a", "b", " ", "a", "a", "b", " ", "a", "b">> >>

NamedCorpora ==
    {ScenarioCorpus, PartialMatchCorpus, NestedCorpus, RaggedCorpus, SkewedCorpus}

\* the words one character longer than those of Words
LongWords == [1..(MaxWordLen + 1) -> Alphabet]

\* one word on one line or on two lines
Doubled(ws) == {<<w>> : w \in ws} \cup {<<w, w>> : w \in ws}

\* up to MaxSentences lines of one word each, the long words alone or twice,
\* and the named corpora
Corpora ==
    UNION {[1..n -> Words] : n \in 0..MaxSentences}
        \cup Doubled(LongWords) \cup NamedCorpora

\* the corpora whose Merge Tables encode_word, encode and decode are called with
CodecCorpora ==
    {<<>>, ScenarioCorpus, PartialMatchCorpus, NestedCorpus}
        \cup {<<w, w>> : w \in LongWords}

\* the corpora of the specification with fairness
ShortCorpora == {<<>>} \cup Doubled(Words) \cup Doubled(LongWords) \cup NamedCorpora

Texts == UNION {[1..n -> Alphabet \cup {SP}] : n \in 0..MaxTextLen}

Tokens == UNION {[1..n -> Alphabet] : n \in 1..MaxTokenLen}

\* up to MaxTokens tokens, and one token more of "a", "aa" and "b"
TokenSeqs ==
    UNION {[1..n -> Tokens] : n \in 0..MaxTokens}
        \cup [1..(MaxTokens + 1) -> {<<"a">>, <<"a", "a">>, <<"b">>}]

\* the argument of the calls of encode_word and encode
TextInputs == {[kind |-> "text", val |-> t] : t \in Texts}

\* the argument of the calls of decode
TokenInputs == {[kind |-> "tokens", val |-> ts] : ts \in TokenSeqs}

NoInput == [kind |-> "none", val |-> <<>>]

\* what the last call returned or raised; train returns None
NoRet == [op |-> "none", arg |-> <<>>, out |-> <<>>, raised |-> "none"]

Returned == [op |-> "train", arg |-> <<>>, out |-> <<>>, raised |-> "none"]

(***************************************************************************)
(* The state machine: a fresh instance, one call of train, and calls of    *)
(* get_stats, encode_word, encode and decode outside of train.             *)
(***************************************************************************)
TypeOK ==
    /\ pc \in {"new", "loop", "done"}
    /\ iter \in 0..MaxMerges + 1
    /\ merges \in 0..MaxMerges + 1
    /\ stop \in {"none", "vocab_size", "no_pairs", "low_freq", "exhausted"}

InitWith(cs, sizes, budgets, inputs) ==
    /\ vocab = <<>>
    /\ bpe_codes = <<>>
    /\ corpus \in cs
    /\ vocab_size \in sizes
    /\ max_merges \in budgets
    /\ pc = "new"
    /\ iter = 0
    /\ merges = 0
    /\ stop = "none"
    /\ input \in inputs
    /\ ret = NoRet

\* lines 7-9, with the arguments of the coming calls
Init == InitWith(Corpora, 1..MaxVocabSize, 0..MaxMerges, {NoInput})

InitShort == InitWith(ShortCorpora, 1..MaxVocabSize, 0..MaxMerges, {NoInput})

InitCodec ==
    \/ InitWith(CodecCorpora, {1, MaxVocabSize}, {0, MaxMerges}, TextInputs)
    \/ InitWith(CodecCorpora, {1, MaxVocabSize}, {0, MaxMerges}, TokenInputs)

\* lines 22-33
TrainSeed ==
    /\ pc = "new"
    /\ vocab' = SplitVocabulary(<<>>, BuildVocabulary(vocab, corpus))
    /\ pc' = "loop"
    /\ ret' = NoRet
    /\ UNCHANGED <<bpe_codes, corpus, vocab_size, max_merges, iter, merges, stop, input>>

\* variant: the target has to be exceeded
vocab_size_exceeded(v, n) == Len(v) > n

\* line 37
vocab_size_reached(v, n) == Len(v) >= n

\* variant: a frequency of 1 is merged
low_frequency_zero(f) == f < 1

\* line 44
low_frequency(f) == f <= 1

InLoop == pc = "loop" /\ iter < max_merges

\* lines 37-39
LoopVocabSizeReached ==
    /\ InLoop
    /\ vocab_size_reached(vocab, vocab_size)
    /\ pc' = "done"
    /\ stop' = "vocab_size"
    /\ ret' = Returned
    /\ UNCHANGED <<vocab, bpe_codes, corpus, vocab_size, max_merges, iter, merges, input>>

\* lines 40-42
LoopNoPairs ==
    /\ InLoop
    /\ ~vocab_size_reached(vocab, vocab_size)
    /\ get_pairs(vocab) = <<>>
    /\ pc' = "done"
    /\ stop' = "no_pairs"
    /\ ret' = Returned
    /\ UNCHANGED <<vocab, bpe_codes, corpus, vocab_size, max_merges, iter, merges, input>>

\* lines 43-45
LoopLowFrequency ==
    /\ InLoop
    /\ ~vocab_size_reached(vocab, vocab_size)
    /\ LET pairs == get_pairs(vocab)
       IN  /\ pairs # <<>>
           /\ low_frequency(Get(pairs, best_pair(pairs)))
    /\ pc' = "done"
    /\ stop' = "low_freq"
    /\ ret' = Returned
    /\ UNCHANGED <<vocab, bpe_codes, corpus, vocab_size, max_merges, iter, merges, input>>

\* lines 43-46 and merge_tokens, lines 76-78
LoopMerge ==
    /\ InLoop
    /\ ~vocab_size_reached(vocab, vocab_size)
    /\ LET pairs == get_pairs(vocab)
       IN  /\ pairs # <<>>
           /\ ~low_frequency(Get(pairs, best_pair(pairs)))
           /\ LET token1 == best_pair(pairs)[1]
                  token2 == best_pair(pairs)[2]
              IN  /\ bpe_codes' = merge_codes(bpe_codes, token1, token2)
                  /\ vocab' = update_vocab(vocab, token1, token2, token1 \o token2)
    /\ iter' = iter + 1
    /\ merges' = merges + 1
    /\ UNCHANGED <<corpus, vocab_size, max_merges, pc, stop, input, ret>>

\* line 36: range(max_merges) is exhausted
LoopExhausted ==
    /\ pc = "loop"
    /\ iter >= max_merges
    /\ pc' = "done"
    /\ stop' = "exhausted"
    /\ ret' = Returned
    /\ UNCHANGED <<vocab, bpe_codes, corpus, vocab_size, max_merges, iter, merges, input>>

Train == TrainSeed \/ LoopVocabSizeReached \/ LoopNoPairs \/ LoopLowFrequency
            \/ LoopMerge \/ LoopExhausted

Idle == pc \in {"new", "done"}

\* lines 229-240
GetStats ==
    /\ Idle
    /\ ret' = get_stats(vocab, bpe_codes)
    /\ UNCHANGED <<vocab, bpe_codes, corpus, vocab_size, max_merges, pc, iter, merges, stop, input>>

\* lines 125-144
EncodeWord ==
    /\ Idle
    /\ input.kind = "text"
    /\ ret' = [op |-> "encode_word", arg |-> input.val,
               out |-> encode_word(bpe_codes, input.val), raised |-> "none"]
    /\ UNCHANGED <<vocab, bpe_codes, corpus, vocab_size, max_merges, pc, iter, merges, stop, input>>

\* lines 108-113
Encode ==
    /\ Idle
    /\ input.kind = "text"
    /\ ret' = [op |-> "encode", arg |-> input.val,
               out |-> encode(bpe_codes, input.val), raised |-> "none"]
    /\ UNCHANGED <<vocab, bpe_codes, corpus, vocab_size, max_merges, pc, iter, merges, stop, input>>

\* lines 156-170
Decode ==
    /\ Idle
    /\ input.kind = "tokens"
    /\ ret' = [op |-> "decode", arg |-> input.val,
               out |-> decode(bpe_codes, input.val), raised |-> "none"]
    /\ UNCHANGED <<vocab, bpe_codes, corpus, vocab_size, max_merges, pc, iter, merges, stop, input>>

Next == TrainSeed \/ LoopVocabSizeReached \/ LoopNoPairs \/ LoopLowFrequency
           \/ LoopMerge \/ LoopExhausted \/ GetStats

NextCodec == TrainSeed \/ LoopVocabSizeReached \/ LoopNoPairs \/ LoopLowFrequency
                \/ LoopMerge \/ LoopExhausted \/ GetStats
                \/ EncodeWord \/ Encode \/ Decode

Spec == Init /\ [][Next]_vars

\* train is one synchronous call: once started it runs to its return
FairSpec == InitShort /\ [][Next]_vars /\ WF_vars(Train)

SpecCodec == InitCodec /\ [][NextCodec]_vars

(***************************************************************************)
(* Definitions used by the properties.                                     *)
(***************************************************************************)
Range(f) == {f[i] : i \in DOMAIN f}

\* the whitespace-delimited words of the corpus
CorpusWords == UNION {Range(Split(corpus[i])) : i \in 1..Len(corpus)}

RECURSIVE WordOccurrences(_, _)
\* the number of occurrences of word w in the sentences cs
WordOccurrences(cs, w) ==
    IF cs = <<>> THEN 0
    ELSE Cardinality({i \in 1..Len(Split(cs[1])) : Split(cs[1])[i] = w})
            + WordOccurrences(Tail(cs), w)

RECURSIVE NumWords(_)
NumWords(cs) == IF cs = <<>> THEN 0 ELSE Len(Split(cs[1])) + NumWords(Tail(cs))

\* a key with its separators removed
Strip(key) == SelectSeq(key, LAMBDA c : c # SP)

Seeded == pc # "new"

MergeStep == merges' # merges

\* the pair that the merge of this step is of
Selected == best_pair(get_pairs(vocab))

(***************************************************************************)
(* C1. Character conservation: once the Vocabulary is seeded, and after    *)
(* every merge, every word of the corpus has a Vocabulary entry whose      *)
(* symbols concatenate to the word, and every entry is of a corpus word.   *)
(***************************************************************************)
CharacterConservation ==
    Seeded =>
        /\ \A w \in CorpusWords : \E i \in 1..Len(vocab) : Concat(Split(vocab[i].k)) = w
        /\ \A i \in 1..Len(vocab) : Strip(vocab[i].k) \in CorpusWords

CharacterConservationWitness ==
    /\ pc = "done"
    /\ merges = 2
    /\ Len(vocab) = 3
    /\ \E i \in 1..Len(vocab) : Len(Split(vocab[i].k)) = 1 /\ Len(vocab[i].k) = 3

(***************************************************************************)
(* C2. A merge rewrites whole adjacent symbols only: the Vocabulary after  *)
(* a merge of (token1, token2) is the one a rewrite of the symbol lists    *)
(* gives.                                                                  *)
(***************************************************************************)
RECURSIVE RewriteSymbols(_, _, _)
RewriteSymbols(symbols, token1, token2) ==
    IF Len(symbols) < 2 THEN symbols
    ELSE IF symbols[1] = token1 /\ symbols[2] = token2
         THEN <<token1 \o token2>> \o RewriteSymbols(SubSeq(symbols, 3, Len(symbols)), token1, token2)
         ELSE <<symbols[1]>> \o RewriteSymbols(Tail(symbols), token1, token2)

WholeSymbolRewrite(v, token1, token2) ==
    [i \in 1..Len(v) |->
        [k |-> Join(<<SP>>, RewriteSymbols(Split(v[i].k), token1, token2)), v |-> v[i].v]]

WholeSymbolMerge ==
    [][MergeStep => vocab' = WholeSymbolRewrite(vocab, Selected[1], Selected[2])]_vars

(***************************************************************************)
(* C3. Merge monotonicity: the Merge Table has as many entries as merges   *)
(* were performed, and a merge appends one entry under a new key and       *)
(* leaves the existing entries as they are; no other step changes it.      *)
(***************************************************************************)
MergeTableGrows ==
    /\ Len(bpe_codes') >= Len(bpe_codes)
    /\ \A i \in 1..Len(bpe_codes) : bpe_codes'[i] = bpe_codes[i]
    /\ MergeStep =>
          /\ Len(bpe_codes') = Len(bpe_codes) + 1
          /\ bpe_codes'[Len(bpe_codes')].k \notin Keys(bpe_codes)
    /\ ~MergeStep => bpe_codes' = bpe_codes

MergeMonotonicity ==
    /\ [](Len(bpe_codes) = merges)
    /\ [][MergeTableGrows]_vars

MergeMonotonicityWitness ==
    /\ merges = 2
    /\ Len(bpe_codes) = 2
    /\ bpe_codes[1].k # bpe_codes[2].k

(***************************************************************************)
(* C4. Stopping correctness: train reaches its return; it has performed at *)
(* most max_merges merges; if some number of merges up to max_merges gives *)
(* a Vocabulary of at least vocab_size entries, it returns with such a     *)
(* Vocabulary; an iteration that begins with at least vocab_size entries   *)
(* merges nothing; and with max_merges = 0 the Vocabulary is the seeded    *)
(* one and the Merge Table is empty.                                       *)
(***************************************************************************)
RECURSIVE Achievable(_, _, _)
\* some Vocabulary within k more merges of v has at least n entries
Achievable(v, n, k) ==
    \/ Len(v) >= n
    \/ /\ k > 0
       /\ get_pairs(v) # <<>>
       /\ LET p == best_pair(get_pairs(v))
          IN  /\ Get(get_pairs(v), p) > 1
              /\ Achievable(update_vocab(v, p[1], p[2], p[1] \o p[2]), n, k - 1)

SeedVocabulary == SplitVocabulary(<<>>, BuildVocabulary(<<>>, corpus))

CharacterSeeded ==
    /\ Keys(vocab) = {Join(<<SP>>, Chars(w)) : w \in CorpusWords}
    /\ \A w \in CorpusWords : Get(vocab, Join(<<SP>>, Chars(w))) = WordOccurrences(corpus, w)

StoppedRight ==
    pc = "done" =>
        /\ merges <= max_merges
        /\ Achievable(SeedVocabulary, vocab_size, max_merges) => Len(vocab) >= vocab_size
        /\ max_merges = 0 => CharacterSeeded /\ bpe_codes = <<>>

NoMergeAtTarget ==
    (pc = "loop" /\ Len(vocab) >= vocab_size) =>
        (merges' = merges /\ vocab' = vocab /\ bpe_codes' = bpe_codes)

StoppingCorrectness ==
    /\ <>(pc = "done")
    /\ []StoppedRight
    /\ [][NoMergeAtTarget]_vars

StoppingCorrectnessWitness ==
    /\ pc = "done"
    /\ stop = "vocab_size"
    /\ Len(vocab) = vocab_size
    /\ get_pairs(vocab) # <<>>
    /\ Get(get_pairs(vocab), best_pair(get_pairs(vocab))) > 1

(***************************************************************************)
(* C5. Stats guard: get_stats on a model with no merge performed does not  *)
(* raise.                                                                  *)
(***************************************************************************)
StatsGuard ==
    (ret.op = "get_stats" /\ Len(bpe_codes) = 0) => ret.raised = "none"

(***************************************************************************)
(* C6. The scenario: after train(["aa aa bb"]) with a target above 2 and   *)
(* at least 2 merges allowed, one merge was performed, the Vocabulary is   *)
(* {"aa": 2, "b b": 1}, the Merge Table is {"a a": "aa"}, encode("aa") is  *)
(* ["aa"], encode("bb") is ["b", "b"], decode(["aa"]) is "aa",             *)
(* decode(["b", "b"]) is "b b", and decode(encode("bb")) is not "bb".      *)
(***************************************************************************)
Str_aa == <<"a", "a">>
Str_bb == <<"b", "b">>
Str_b == <<"b">>
Str_a_a == <<"a", " ", "a">>
Str_b_b == <<"b", " ", "b">>

ScenarioTrained ==
    /\ corpus = ScenarioCorpus
    /\ vocab_size > 2
    /\ max_merges >= 2
    /\ pc = "done"

Scenario ==
    ScenarioTrained =>
        /\ merges = 1
        /\ vocab = <<[k |-> Str_aa, v |-> 2], [k |-> Str_b_b, v |-> 1]>>
        /\ bpe_codes = <<[k |-> Str_a_a, v |-> Str_aa]>>
        /\ (ret.op = "encode" /\ ret.arg = Str_aa) => ret.out = <<Str_aa>>
        /\ (ret.op = "encode" /\ ret.arg = Str_bb) => ret.out = <<Str_b, Str_b>>
        /\ (ret.op = "decode" /\ ret.arg = <<Str_aa>>) => ret.out = Str_aa
        /\ (ret.op = "decode" /\ ret.arg = <<Str_b, Str_b>>) => ret.out = Str_b_b
        /\ decode(bpe_codes, encode(bpe_codes, Str_bb)) # Str_bb

ScenarioWitness ==
    /\ ScenarioTrained
    /\ ret.op = "decode"
    /\ ret.arg = <<Str_b, Str_b>>

(***************************************************************************)
(* C7. Merge selection: a merge is of a pair whose frequency (the sum,     *)
(* over the entries, of the entry's frequency times the number of adjacent *)
(* occurrences of the pair in it) is maximal and at least 2; an iteration  *)
(* with no pair, or whose best frequency is at most 1, merges nothing.     *)
(***************************************************************************)
Occurrences(symbols, p) ==
    Cardinality({i \in 1..(Len(symbols) - 1) : symbols[i] = p[1] /\ symbols[i + 1] = p[2]})

RECURSIVE PairFrequency(_, _)
PairFrequency(v, p) ==
    IF v = <<>> THEN 0
    ELSE v[1].v * Occurrences(Split(v[1].k), p) + PairFrequency(Tail(v), p)

AdjacentPairs(v) ==
    UNION {{<<Split(v[i].k)[j], Split(v[i].k)[j + 1]>> : j \in 1..(Len(Split(v[i].k)) - 1)}
              : i \in 1..Len(v)}

MergedPair(p) ==
    /\ Len(bpe_codes') = Len(bpe_codes) + 1
    /\ bpe_codes'[Len(bpe_codes')] = [k |-> p[1] \o <<SP>> \o p[2], v |-> p[1] \o p[2]]

SelectsBest ==
    /\ MergeStep =>
          \E p \in AdjacentPairs(vocab) :
              /\ MergedPair(p)
              /\ PairFrequency(vocab, p) >= 2
              /\ \A q \in AdjacentPairs(vocab) : PairFrequency(vocab, q) <= PairFrequency(vocab, p)
    /\ (pc = "loop" /\ \A q \in AdjacentPairs(vocab) : PairFrequency(vocab, q) <= 1) =>
          (merges' = merges /\ vocab' = vocab /\ bpe_codes' = bpe_codes)

MergeSelection == [][SelectsBest]_vars

MergeSelectionWitness ==
    /\ corpus = SkewedCorpus
    /\ merges = 1
    /\ bpe_codes[1].v = <<"a", "b">>

(***************************************************************************)
(* C8. Across a merge the number of entries does not grow, an entry's      *)
(* frequency is the sum of the frequencies of the entries of its word      *)
(* before the merge, and the sum of all frequencies is unchanged; it is    *)
(* the number of words of the corpus.                                      *)
(***************************************************************************)
RECURSIVE FrequencyOfWord(_, _)
FrequencyOfWord(v, w) ==
    IF v = <<>> THEN 0
    ELSE (IF Strip(v[1].k) = w THEN v[1].v ELSE 0) + FrequencyOfWord(Tail(v), w)

MassKept ==
    MergeStep =>
        /\ Len(vocab') <= Len(vocab)
        /\ SumValues(vocab') = SumValues(vocab)
        /\ \A j \in 1..Len(vocab') :
              vocab'[j].v = FrequencyOfWord(vocab, Strip(vocab'[j].k))

FrequencyMass ==
    /\ [](Seeded => SumValues(vocab) = NumWords(corpus))
    /\ [][MassKept]_vars

FrequencyMassWitness ==
    /\ merges >= 1
    /\ Len(vocab) >= 2
    /\ SumValues(vocab) >= 3
    /\ \E i \in 1..Len(vocab) : Len(Split(vocab[i].k)) = Len(Strip(vocab[i].k))

(***************************************************************************)
(* C9. Greedy longest match: encode_word(w) is [w] if w is a Merge Table   *)
(* value, and otherwise the left-to-right segmentation of w whose token at *)
(* each cursor is the longest substring starting there that is a Merge     *)
(* Table value, or the character at the cursor if there is none;           *)
(* encode(text) is the concatenation of that over the words of text.       *)
(***************************************************************************)
LongestEnd(codes, w, c) ==
    LET ends == {j \in c..Len(w) : SubSeq(w, c, j) \in Values(codes)}
    IN  IF ends = {} THEN c ELSE CHOOSE j \in ends : \A k \in ends : k <= j

RECURSIVE GreedySegments(_, _, _)
GreedySegments(codes, w, c) ==
    IF c > Len(w) THEN <<>>
    ELSE <<SubSeq(w, c, LongestEnd(codes, w, c))>>
            \o GreedySegments(codes, w, LongestEnd(codes, w, c) + 1)

GreedyWord(codes, w) == IF w \in Values(codes) THEN <<w>> ELSE GreedySegments(codes, w, 1)

GreedyLongestMatch ==
    /\ ret.op = "encode_word" => ret.out = GreedyWord(bpe_codes, ret.arg)
    /\ ret.op = "encode" =>
          ret.out = Concat([i \in 1..Len(Split(ret.arg)) |-> GreedyWord(bpe_codes, Split(ret.arg)[i])])

GreedyLongestMatchWitness ==
    /\ ret.op = "encode_word"
    /\ Len(ret.out) = 2
    /\ Len(ret.out[2]) = 3
    /\ SubSeq(ret.out[2], 1, 2) \in Values(bpe_codes)

(***************************************************************************)
(* C10. Decoder fragment rule: a token that is a Merge Table value and is  *)
(* not preceded by a token that is not one is a word of its own; a token   *)
(* that is not a Merge Table value starts a word made of it and of the     *)
(* maximal run of Merge Table values that follow it; the result is the     *)
(* words joined by single spaces; decode([t]) is t for a value t.          *)
(***************************************************************************)
WordStarts(codes, enc) ==
    {i \in 1..Len(enc) :
        \/ enc[i] \notin Values(codes)
        \/ \A j \in 1..i : enc[j] \in Values(codes)}

WordEnd(codes, enc, s) ==
    LET later == {t \in WordStarts(codes, enc) : t > s}
    IN  IF later = {} THEN Len(enc) ELSE (CHOOSE t \in later : \A u \in later : t <= u) - 1

RECURSIVE WordsOf(_, _, _)
WordsOf(codes, enc, starts) ==
    IF starts = {} THEN <<>>
    ELSE LET s == CHOOSE t \in starts : \A u \in starts : t <= u
         IN  <<Concat(SubSeq(enc, s, WordEnd(codes, enc, s)))>> \o WordsOf(codes, enc, starts \ {s})

FragmentRule ==
    ret.op = "decode" =>
        /\ ret.out = Join(<<SP>>, WordsOf(bpe_codes, ret.arg, WordStarts(bpe_codes, ret.arg)))
        /\ (Len(ret.arg) = 1 /\ ret.arg[1] \in Values(bpe_codes)) => ret.out = ret.arg[1]

FragmentRuleWitness ==
    /\ ret.op = "decode"
    /\ Len(ret.arg) = 3
    /\ ret.arg[1] \notin Values(bpe_codes)
    /\ ret.arg[2] \in Values(bpe_codes)
    /\ ret.arg[3] \notin Values(bpe_codes)

====
